---------------------------- MODULE Spec2Model ----------------------------
(***************************************************************************)
(* A model of downloader.py: the playlist reference normaliser, the        *)
(* filename sanitiser, the walk over the embedded JSON document that       *)
(* collects tracks and the playlist name, and main() with download_tracks. *)
(*                                                                         *)
(* Python strings are sequences of one-character strings, so that `in`,    *)
(* startswith, strip, lower, slicing and the two regular expressions are   *)
(* computed character by character.                                        *)
(***************************************************************************)
EXTENDS Integers, Sequences, FiniteSets, TLC

(***************************************************************************)
(* Bounds of the model.                                                    *)
(***************************************************************************)
\* longest playlist id drawn for a reference
MaxIdLen == 2

(***************************************************************************)
(* Characters and string helpers.                                          *)
(***************************************************************************)
Lowercase ==
  {"a","b","c","d","e","f","g","h","i","j","k","l","m",
   "n","o","p","q","r","s","t","u","v","w","x","y","z"}

Uppercase ==
  {"A","B","C","D","E","F","G","H","I","J","K","L","M",
   "N","O","P","Q","R","S","T","U","V","W","X","Y","Z"}

Digits == {"0","1","2","3","4","5","6","7","8","9"}

\* the character class [a-zA-Z0-9] of the pattern in extract_playlist_id
Alnum == Lowercase \cup Uppercase \cup Digits

\* s.startswith(p)
StartsWith(s, p) == Len(s) >= Len(p) /\ SubSeq(s, 1, Len(p)) = p

\* p occurs in s at position i (1-based)
OccursAt(s, p, i) == i + Len(p) - 1 <= Len(s) /\ SubSeq(s, i, i + Len(p) - 1) = p

\* p in s
Contains(s, p) == \E i \in 1..(Len(s) + 1) : OccursAt(s, p, i)

\* the end of the longest run of characters of class cls in s that starts at i
\* (i - 1 when s[i] is not in cls)
RECURSIVE RunEnd(_, _, _)
RunEnd(s, cls, i) ==
  IF i <= Len(s) /\ s[i] \in cls THEN RunEnd(s, cls, i + 1) ELSE i - 1

(***************************************************************************)
(* Results of a call: the value returned, or the exception raised.         *)
(***************************************************************************)
Ok(v) == [exc |-> "none", val |-> v]
Raise(e) == [exc |-> e, val |-> <<>>]
NotCalled == [exc |-> "notcalled", val |-> <<>>]

(***************************************************************************)
(* extract_playlist_id and normalize_playlist_url.                         *)
(***************************************************************************)
SpotifyPlaylistMarker ==
  <<"s","p","o","t","i","f","y",".","c","o","m","/","p","l","a","y","l","i","s","t","/">>

PlaylistSlash == <<"p","l","a","y","l","i","s","t","/">>

HttpScheme == <<"h","t","t","p",":","/","/">>

HttpsScheme == <<"h","t","t","p","s",":","/","/">>

CanonicalPrefix ==
  <<"h","t","t","p","s",":","/","/","o","p","e","n",".","s","p","o","t","i","f","y",
    ".","c","o","m","/","p","l","a","y","l","i","s","t","/">>

\* re.search(r"playlist/([a-zA-Z0-9]+)", s): the positions where the pattern
\* matches, i.e. "playlist/" followed by at least one alphanumeric character
PlaylistMatchStarts(s) ==
  {i \in 1..Len(s) :
     /\ OccursAt(s, PlaylistSlash, i)
     /\ i + Len(PlaylistSlash) <= Len(s)
     /\ s[i + Len(PlaylistSlash)] \in Alnum}

\* group(1) of the leftmost match: the greedy run of alphanumerics
PlaylistMatchGroup(s) ==
  LET i == CHOOSE k \in PlaylistMatchStarts(s) :
             \A j \in PlaylistMatchStarts(s) : k <= j
      b == i + Len(PlaylistSlash)
  IN  SubSeq(s, b, RunEnd(s, Alnum, b))

extract_playlist_id(playlist_ref) ==
  IF Contains(playlist_ref, SpotifyPlaylistMarker)
  THEN IF PlaylistMatchStarts(playlist_ref) = {}
       THEN Raise("ValueError")
       ELSE Ok(PlaylistMatchGroup(playlist_ref))
  ELSE Ok(playlist_ref)

\* the test with the http:// alternative left out
IsHttpsOnly(playlist_ref) == StartsWith(playlist_ref, HttpsScheme)

\* the test that returns the reference as it is
IsHttpUrl(playlist_ref) ==
  StartsWith(playlist_ref, HttpScheme) \/ StartsWith(playlist_ref, HttpsScheme)

normalize_playlist_url(playlist_ref) ==
  IF IsHttpUrl(playlist_ref)
  THEN Ok(playlist_ref)
  ELSE LET id == extract_playlist_id(playlist_ref)
       IN  IF id.exc # "none" THEN id ELSE Ok(CanonicalPrefix \o id.val)

(***************************************************************************)
(* Track: its query and its filename.                                      *)
(***************************************************************************)
Track(title, artists) == [title |-> title, artists |-> artists]

\* sep.join(parts)
RECURSIVE Join(_, _)
Join(sep, parts) ==
  IF parts = <<>> THEN <<>>
  ELSE IF Len(parts) = 1 THEN parts[1]
  ELSE parts[1] \o sep \o Join(sep, Tail(parts))

\* the characters str.strip() removes
Whitespace == {" ", "\t", "\n"}

RECURSIVE LStrip(_)
LStrip(s) == IF s # <<>> /\ s[1] \in Whitespace THEN LStrip(Tail(s)) ELSE s

RECURSIVE RStrip(_)
RStrip(s) ==
  IF s # <<>> /\ s[Len(s)] \in Whitespace THEN RStrip(SubSeq(s, 1, Len(s) - 1)) ELSE s

\* s.strip()
Strip(s) == RStrip(LStrip(s))

\* s[:n]
Truncate(s, n) == IF Len(s) <= n THEN s ELSE SubSeq(s, 1, n)

\* the class the pattern would have with its backslash not doubled: [\/:*?"<>|]
InvalidCharsNoBackslash == {"/", ":", "*", "?", "\"", "<", ">", "|"}

\* the character class of INVALID_FILENAME_CHARS
INVALID_FILENAME_CHARS == {"\\", "/", ":", "*", "?", "\"", "<", ">", "|"}

\* INVALID_FILENAME_CHARS.sub("_", raw)
SubInvalid(raw) ==
  [i \in 1..Len(raw) |-> IF raw[i] \in INVALID_FILENAME_CHARS THEN "_" ELSE raw[i]]

\* the slice bound of Track.filename
MaxFilenameLen == 180

UnknownArtist ==
  <<"A","r","t","i","s","t","a"," ","D","e","s","c","o","n","h","e","c","i","d","o">>

query(track) ==
  IF track.artists # <<>>
  THEN Join(<<" ">>, track.artists) \o <<" ", "-", " ">> \o track.title
  ELSE track.title

filename(track) ==
  LET artists == IF track.artists # <<>>
                 THEN Join(<<",", " ">>, track.artists)
                 ELSE UnknownArtist
      raw == artists \o <<" ", "-", " ">> \o track.title
      cleaned == SubInvalid(raw)
  IN  Truncate(Strip(cleaned), MaxFilenameLen)

(***************************************************************************)
(* JSON values, as json.loads returns them: dict (keys in document order), *)
(* list, str, a number, None.                                              *)
(***************************************************************************)
JDict(keys, vals) == [k |-> "dict", keys |-> keys, vals |-> vals]
JList(items) == [k |-> "list", items |-> items]
JStr(s) == [k |-> "str", s |-> s]
JNum(n) == [k |-> "num", n |-> n]
JNull == [k |-> "null"]

HasKey(node, key) == \E i \in 1..Len(node.keys) : node.keys[i] = key

\* node.get(key): None when the key is missing
Get(node, key) ==
  IF HasKey(node, key)
  THEN node.vals[CHOOSE i \in 1..Len(node.keys) : node.keys[i] = key]
  ELSE JNull

\* node.get(key, default)
GetOr(node, key, default) == IF HasKey(node, key) THEN Get(node, key) ELSE default

\* bool(v), as the `or` of line 74 tests it
Truthy(v) ==
  CASE v.k = "str" -> v.s # <<>>
    [] v.k = "num" -> v.n # 0
    [] v.k = "list" -> v.items # <<>>
    [] v.k = "dict" -> v.keys # <<>>
    [] OTHER -> FALSE

\* _walk: a dict yields itself, then the nodes of its values; a list the nodes
\* of its items; anything else nothing
RECURSIVE _walk(_)
RECURSIVE WalkAll(_)
WalkAll(values) ==
  IF values = <<>> THEN <<>> ELSE _walk(Head(values)) \o WalkAll(Tail(values))

_walk(obj) ==
  CASE obj.k = "dict" -> <<obj>> \o WalkAll(obj.vals)
    [] obj.k = "list" -> WalkAll(obj.items)
    [] OTHER -> <<>>

(***************************************************************************)
(* _extract_tracks_from_next_data.                                         *)
(***************************************************************************)
UpperSeq ==
  <<"A","B","C","D","E","F","G","H","I","J","K","L","M",
    "N","O","P","Q","R","S","T","U","V","W","X","Y","Z">>

LowerSeq ==
  <<"a","b","c","d","e","f","g","h","i","j","k","l","m",
    "n","o","p","q","r","s","t","u","v","w","x","y","z">>

\* s.lower()
Lower(s) ==
  [i \in 1..Len(s) |->
     IF s[i] \in Uppercase
     THEN LowerSeq[CHOOSE j \in 1..Len(UpperSeq) : UpperSeq[j] = s[i]]
     ELSE s[i]]

TrackUriPrefix == <<"s","p","o","t","i","f","y",":","t","r","a","c","k",":">>

\* line 74: node.get("name") or node.get("title")
NameOf(node) ==
  IF Truthy(Get(node, "name")) THEN Get(node, "name") ELSE Get(node, "title")

\* isinstance(v, str) and v.strip()
IsNonBlankStr(v) == v.k = "str" /\ Strip(v.s) # <<>>

\* lines 83-87: the names of the items of an `artists` dict
RECURSIVE ProfileNames(_)
ProfileNames(items) ==
  IF items = <<>> THEN <<>>
  ELSE LET artist == Head(items)
           rest == ProfileNames(Tail(items))
       IN  IF /\ artist.k = "dict"
              /\ Get(artist, "profile").k = "dict"
              /\ IsNonBlankStr(Get(Get(artist, "profile"), "name"))
           THEN <<Strip(Get(Get(artist, "profile"), "name").s)>> \o rest
           ELSE rest

\* lines 89-95: the names of an `artists` list
RECURSIVE ListNames(_)
ListNames(items) ==
  IF items = <<>> THEN <<>>
  ELSE LET artist == Head(items)
           rest == ListNames(Tail(items))
       IN  IF artist.k = "dict"
           THEN IF IsNonBlankStr(Get(artist, "name"))
                THEN <<Strip(Get(artist, "name").s)>> \o rest
                ELSE rest
           ELSE IF IsNonBlankStr(artist)
                THEN <<Strip(artist.s)>> \o rest
                ELSE rest

\* `for artist in items`: the elements of a list; the keys of a dict and the
\* characters of a str, none of which is a dict; TypeError otherwise
IterItems(items) ==
  CASE items.k = "list" -> Ok(items.items)
    [] items.k = "dict" -> Ok(<<>>)
    [] items.k = "str" -> Ok(<<>>)
    [] OTHER -> Raise("TypeError")

\* lines 80-95
ArtistsOf(node) ==
  LET artists_data == Get(node, "artists")
  IN  CASE artists_data.k = "dict" ->
             LET it == IterItems(GetOr(artists_data, "items", JList(<<>>)))
             IN  IF it.exc # "none" THEN it ELSE Ok(ProfileNames(it.val))
        [] artists_data.k = "list" -> Ok(ListNames(artists_data.items))
        [] OTHER -> Ok(<<>>)

\* the test with the prefix cut short to "spotify:"
UriSkipsForeignOnly(node) ==
  LET uri == Get(node, "uri")
  IN  uri.k = "str" /\ ~StartsWith(uri.s, <<"s","p","o","t","i","f","y",":">>)

\* lines 97-99: the node is skipped for its uri
UriSkips(node) ==
  LET uri == Get(node, "uri")
  IN  uri.k = "str" /\ ~StartsWith(uri.s, TrackUriPrefix)

\* line 108
KeyOf(title, artists) ==
  <<Lower(title), [i \in 1..Len(artists) |-> Lower(artists[i])]>>

\* what one pass of the loop body does with a node: "skip" (a continue),
\* "raise", or "put" with the key and the Track of lines 108-109
Classify(node) ==
  LET name == NameOf(node)
  IN  IF name.k # "str" THEN [act |-> "skip"]
      ELSE LET artists == ArtistsOf(node)
           IN  IF artists.exc # "none" THEN [act |-> "raise", exc |-> artists.exc]
               ELSE IF UriSkips(node) THEN [act |-> "skip"]
               ELSE IF artists.val = <<>> THEN [act |-> "skip"]
               ELSE IF Strip(name.s) = <<>> THEN [act |-> "skip"]
               ELSE [act |-> "put",
                     key |-> KeyOf(Strip(name.s), artists.val),
                     track |-> Track(Strip(name.s), artists.val)]

\* found.setdefault(key, track): the first Track of a key is kept
PutKeepFirst(found, key, track) ==
  IF \E i \in 1..Len(found) : found[i].key = key
  THEN found
  ELSE Append(found, [key |-> key, track |-> track])

\* found[key] = track on a dict that keeps insertion order
Put(found, key, track) ==
  IF \E i \in 1..Len(found) : found[i].key = key
  THEN [i \in 1..Len(found) |->
          IF found[i].key = key THEN [key |-> key, track |-> track] ELSE found[i]]
  ELSE Append(found, [key |-> key, track |-> track])

\* list(found.values())
Values(found) == [i \in 1..Len(found) |-> found[i].track]

\* the loop of lines 69-109 over the nodes that are left
RECURSIVE ExtractFrom(_, _)
ExtractFrom(nodes, found) ==
  IF nodes = <<>> THEN Ok(Values(found))
  ELSE LET c == Classify(Head(nodes))
       IN  CASE c.act = "raise" -> Raise(c.exc)
             [] c.act = "put" -> ExtractFrom(Tail(nodes), Put(found, c.key, c.track))
             [] OTHER -> ExtractFrom(Tail(nodes), found)

_extract_tracks_from_next_data(next_data) == ExtractFrom(_walk(next_data), <<>>)

(***************************************************************************)
(* The playlist name, lines 148-156.                                       *)
(***************************************************************************)
PlaylistTypename == JStr(<<"P","l","a","y","l","i","s","t">>)

\* line 154: the node ends the search
IsNamedPlaylist(node) ==
  Get(node, "__typename") = PlaylistTypename /\ Get(node, "name").k = "str"

\* line 155: node["name"].strip() or playlist_name
NameOr(node, playlist_name) ==
  IF Strip(Get(node, "name").s) # <<>> THEN Strip(Get(node, "name").s) ELSE playlist_name

RECURSIVE PlaylistNameFrom(_, _)
PlaylistNameFrom(nodes, playlist_name) ==
  IF nodes = <<>> THEN playlist_name
  ELSE IF IsNamedPlaylist(Head(nodes)) THEN NameOr(Head(nodes), playlist_name)
  ELSE PlaylistNameFrom(Tail(nodes), playlist_name)

(***************************************************************************)
(* State.                                                                  *)
(***************************************************************************)
VARIABLES
  \* calls of extract_playlist_id and normalize_playlist_url on one reference
  ref,        \* the reference, as the parts it was written from: pre, id, suf
  idRes,      \* extract_playlist_id(reference)
  idAgain,    \* extract_playlist_id of the id returned
  urlRes,     \* normalize_playlist_url(reference)
  \* reads of Track.filename
  trk,        \* the Track
  fnameRes,   \* the first read of trk.filename
  fnameAgain, \* a second read
  \* the two loops over _walk(next_data)
  next_data,  \* the parsed document
  nodes,      \* what _walk yields, in order
  wpc,        \* "tracks": loop of line 69; "name": loop of line 151; "raised"; "done"
  wi,         \* the position in nodes of the node the loop is at
  found,      \* the dict of line 67, in insertion order
  writers,    \* the positions of the nodes that reached line 109
  tracksRes,  \* what _extract_tracks_from_next_data returned or raised
  nameRes,    \* the playlist name after the loop of line 151
  \* one run of main()
  playlist,   \* args.playlist
  net,        \* what the network gives for the one request of the run
  files0,     \* the names of the files in the output directory before the run
  mpc,        \* "start", "resolved", "loop", "invoke", "returned", "crashed"
  resolution, \* what fetch_playlist_tracks_without_spotify_api returned or raised
  dirMade,    \* output_dir.mkdir has run
  queue,      \* what enumerate(tracks, start=1) has still to yield
  files,      \* the names of the files in the output directory
  log,        \* the existence checks and the download invocations, in order
  failed,     \* the indices of the tracks whose download raised DownloadError
  exitCode    \* what main() returned; NoExit before it returns

refVars == <<ref, idRes, idAgain, urlRes>>
nameVars == <<trk, fnameRes, fnameAgain>>
walkVars == <<next_data, nodes, wpc, wi, found, writers, tracksRes, nameRes>>
mainVars ==
  <<playlist, net, files0, mpc, resolution, dirMade, queue, files, log, failed, exitCode>>
vars == <<refVars, nameVars, walkVars, mainVars>>

NoRef == [pre |-> <<>>, id |-> <<>>, suf |-> <<>>]
RefIdle == ref = NoRef /\ idRes = NotCalled /\ idAgain = NotCalled /\ urlRes = NotCalled

NoTrack == Track(<<>>, <<>>)
NameIdle == trk = NoTrack /\ fnameRes = NotCalled /\ fnameAgain = NotCalled

WalkIdle ==
  /\ next_data = JNull
  /\ nodes = <<>>
  /\ wpc = "idle"
  /\ wi = 0
  /\ found = <<>>
  /\ writers = {}
  /\ tracksRes = NotCalled
  /\ nameRes = NotCalled

\* main() has not returned; main() returned code
NoExit == [returned |-> FALSE, code |-> 0]
Returned(code) == [returned |-> TRUE, code |-> code]

MainIdle ==
  /\ playlist = <<>>
  /\ net = [kind |-> "none"]
  /\ files0 = {}
  /\ mpc = "idle"
  /\ resolution = NotCalled
  /\ dirMade = FALSE
  /\ queue = <<>>
  /\ files = {}
  /\ log = <<>>
  /\ failed = {}
  /\ exitCode = NoExit

(***************************************************************************)
(* References: a bare id, or a URL written as prefix, id, suffix.          *)
(***************************************************************************)
\* the sequences over S of length at most n
RECURSIVE SeqsUpTo(_, _)
SeqsUpTo(S, n) ==
  IF n = 0 THEN {<<>>}
  ELSE LET shorter == SeqsUpTo(S, n - 1)
       IN  shorter \cup {Append(q, c) : q \in shorter, c \in S}

IdChars == {"a", "Z", "7"}

\* the ids; the empty one gives the URL with no id in it
Ids == SeqsUpTo(IdChars, MaxIdLen)

Host == <<"o","p","e","n",".","s","p","o","t","i","f","y",".","c","o","m">>

Prefixes ==
  { <<>>,
    HttpsScheme \o Host \o <<"/">> \o PlaylistSlash,
    HttpScheme \o Host \o <<"/">> \o PlaylistSlash,
    Host \o <<"/">> \o PlaylistSlash,
    HttpsScheme \o Host \o <<"/","i","n","t","l","-","p","t","/">> \o PlaylistSlash,
    HttpsScheme \o Host \o <<"/","e","m","b","e","d","/">> \o PlaylistSlash }

Suffixes ==
  { <<>>,
    <<"?","s","i","=","a","b","c">>,
    <<"?","s","i","=","a","&","p","t","=","9">> }

Refs == [pre : Prefixes, id : Ids, suf : Suffixes]

RefText(r) == r.pre \o r.id \o r.suf

InitRef ==
  /\ ref \in Refs
  /\ idRes = NotCalled
  /\ idAgain = NotCalled
  /\ urlRes = NotCalled
  /\ NameIdle
  /\ WalkIdle
  /\ MainIdle

CallExtract ==
  /\ idRes = NotCalled
  /\ idRes' = extract_playlist_id(RefText(ref))
  /\ UNCHANGED <<ref, idAgain, urlRes, nameVars, walkVars, mainVars>>

CallExtractAgain ==
  /\ idRes.exc = "none"
  /\ idAgain = NotCalled
  /\ idAgain' = extract_playlist_id(idRes.val)
  /\ UNCHANGED <<ref, idRes, urlRes, nameVars, walkVars, mainVars>>

CallNormalize ==
  /\ urlRes = NotCalled
  /\ urlRes' = normalize_playlist_url(RefText(ref))
  /\ UNCHANGED <<ref, idRes, idAgain, nameVars, walkVars, mainVars>>

NextRef == CallExtract \/ CallExtractAgain \/ CallNormalize

SpecRef == InitRef /\ [][NextRef]_vars

(***************************************************************************)
(* Tracks whose filename is read: titles long enough to be cut.            *)
(***************************************************************************)
\* the most repetitions of a unit in a title
MaxRepeat == 70

RECURSIVE Repeat(_, _)
Repeat(unit, n) == IF n = 0 THEN <<>> ELSE unit \o Repeat(unit, n - 1)

TitleUnits ==
  { <<"a", "b", "c">>,
    <<" ", "a", " ">>,
    <<"\\", "/", ":">>,
    <<"*", "?", "\"">>,
    <<"<", ">", "|">> }

ArtistLists ==
  { <<>>,
    << <<"X">> >>,
    << <<"X", "/", "y">>, <<" ", "Z", "|">> >> }

NamedTracks ==
  {Track(Repeat(u, n), a) : u \in TitleUnits, n \in 0..MaxRepeat, a \in ArtistLists}

InitName ==
  /\ trk \in NamedTracks
  /\ fnameRes = NotCalled
  /\ fnameAgain = NotCalled
  /\ RefIdle
  /\ WalkIdle
  /\ MainIdle

ReadFilename ==
  /\ fnameRes = NotCalled
  /\ fnameRes' = Ok(filename(trk))
  /\ UNCHANGED <<trk, fnameAgain, refVars, walkVars, mainVars>>

ReadFilenameAgain ==
  /\ fnameRes # NotCalled
  /\ fnameAgain = NotCalled
  /\ fnameAgain' = Ok(filename(trk))
  /\ UNCHANGED <<trk, fnameRes, refVars, walkVars, mainVars>>

NextName == ReadFilename \/ ReadFilenameAgain

SpecName == InitName /\ [][NextName]_vars

(***************************************************************************)
(* Documents that are walked: a root dict over a few nodes drawn from      *)
(* NodeChoices, side by side in a list or the later ones inside the first. *)
(***************************************************************************)
\* the most nodes drawn for a document
MaxNodes == 2

\* the dict with the given <<key, value>> pairs, in order
Obj(pairs) ==
  JDict([i \in 1..Len(pairs) |-> pairs[i][1]], [i \in 1..Len(pairs) |-> pairs[i][2]])

TrackUri1 == JStr(TrackUriPrefix \o <<"1">>)
AlbumUri == JStr(<<"s","p","o","t","i","f","y",":","a","l","b","u","m",":","1">>)
PlaylistUri ==
  JStr(<<"s","p","o","t","i","f","y",":","p","l","a","y","l","i","s","t",":","1">>)

\* artists as a list of strings, as a list of objects, as {"items": [{"profile": ..}]}
ArtistsStrs == JList(<<JStr(<<"X">>)>>)
ArtistsObjs == JList(<<Obj(<< <<"name", JStr(<<"x", " ">>)>> >>)>>)
ArtistsItems ==
  Obj(<< <<"items",
           JList(<<Obj(<< <<"profile", Obj(<< <<"name", JStr(<<"X">>)>> >>)>> >>)>>)>> >>)
ArtistsTwo == JList(<<JStr(<<"X">>), JStr(<<"Y">>)>>)
ArtistsBlank == JList(<<JStr(<<" ">>)>>)
ArtistsItemsNull == Obj(<< <<"items", JNull>> >>)

NodeChoices ==
  { \* the same track, with each shape of uri
    Obj(<< <<"name", JStr(<<"A">>)>>, <<"artists", ArtistsStrs>> >>),
    Obj(<< <<"name", JStr(<<"A">>)>>, <<"artists", ArtistsStrs>>, <<"uri", JNull>> >>),
    Obj(<< <<"name", JStr(<<"A">>)>>, <<"artists", ArtistsStrs>>, <<"uri", TrackUri1>> >>),
    Obj(<< <<"name", JStr(<<"A">>)>>, <<"artists", ArtistsStrs>>, <<"uri", AlbumUri>> >>),
    \* the same key in another casing, and through the other shapes of artists
    Obj(<< <<"name", JStr(<<" ", "a">>)>>, <<"artists", ArtistsObjs>> >>),
    Obj(<< <<"title", JStr(<<"a">>)>>, <<"artists", ArtistsItems>>, <<"uri", TrackUri1>> >>),
    \* another track
    Obj(<< <<"name", JStr(<<"A">>)>>, <<"artists", ArtistsTwo>> >>),
    \* an empty name gives way to the title; a blank one does not
    Obj(<< <<"name", JStr(<<>>)>>, <<"title", JStr(<<"A">>)>>, <<"artists", ArtistsStrs>> >>),
    Obj(<< <<"name", JStr(<<" ">>)>>, <<"title", JStr(<<"A">>)>>, <<"artists", ArtistsStrs>> >>),
    \* no track: a name that is no string, no artist left, items that cannot be iterated
    Obj(<< <<"name", JNum(7)>>, <<"title", JStr(<<"A">>)>>, <<"artists", ArtistsStrs>> >>),
    Obj(<< <<"name", JStr(<<"A">>)>>, <<"artists", ArtistsBlank>> >>),
    Obj(<< <<"name", JStr(<<"A">>)>>, <<"artists", ArtistsItemsNull>> >>),
    \* playlist objects
    Obj(<< <<"__typename", PlaylistTypename>>, <<"name", JStr(<<"M", "i", "x", " ">>)>>,
           <<"uri", PlaylistUri>> >>),
    Obj(<< <<"__typename", PlaylistTypename>>, <<"name", JStr(<<"A">>)>>,
           <<"artists", ArtistsStrs>> >>),
    Obj(<< <<"__typename", PlaylistTypename>>, <<"name", JStr(<<>>)>> >>),
    Obj(<< <<"__typename", PlaylistTypename>>, <<"name", JNull>> >>) }

\* the nodes side by side
FlatDoc(ns) == Obj(<< <<"props", Obj(<< <<"items", JList(ns)>> >>)>> >>)

\* the later nodes inside the first one
NestedDoc(ns) ==
  IF ns = <<>> THEN Obj(<< <<"props", JList(<<>>)>> >>)
  ELSE LET first == ns[1]
       IN  Obj(<< <<"entity",
                    JDict(Append(first.keys, "content"),
                          Append(first.vals, Obj(<< <<"items", JList(Tail(ns))>> >>)))>> >>)

Documents ==
  {FlatDoc(ns) : ns \in SeqsUpTo(NodeChoices, MaxNodes)}
    \cup {NestedDoc(ns) : ns \in SeqsUpTo(NodeChoices, MaxNodes)}

\* the reference the walked document was fetched for
WalkRef ==
  HttpsScheme \o Host \o <<"/">> \o PlaylistSlash \o <<"7", "a", "?", "s", "i", "=", "b">>

InitWalk ==
  /\ next_data \in Documents
  /\ nodes = _walk(next_data)
  /\ wpc = "tracks"
  /\ wi = 1
  /\ found = <<>>
  /\ writers = {}
  /\ tracksRes = NotCalled
  /\ nameRes = NotCalled
  /\ RefIdle
  /\ NameIdle
  /\ MainIdle

\* one pass of the loop of lines 69-109
VisitNode ==
  /\ wpc = "tracks"
  /\ wi <= Len(nodes)
  /\ LET c == Classify(nodes[wi])
     IN  CASE c.act = "raise" ->
                /\ tracksRes' = Raise(c.exc)
                /\ wpc' = "raised"
                /\ UNCHANGED <<wi, found, writers>>
           [] c.act = "put" ->
                /\ found' = Put(found, c.key, c.track)
                /\ writers' = writers \cup {wi}
                /\ wi' = wi + 1
                /\ UNCHANGED <<tracksRes, wpc>>
           [] OTHER ->
                /\ wi' = wi + 1
                /\ UNCHANGED <<found, writers, tracksRes, wpc>>
  /\ UNCHANGED <<next_data, nodes, nameRes, refVars, nameVars, mainVars>>

\* line 111, then line 148
ReturnTracks ==
  /\ wpc = "tracks"
  /\ wi > Len(nodes)
  /\ tracksRes' = Ok(Values(found))
  /\ nameRes' = extract_playlist_id(WalkRef)
  /\ wpc' = "name"
  /\ wi' = 1
  /\ UNCHANGED <<next_data, nodes, found, writers, refVars, nameVars, mainVars>>

\* one pass of the loop of lines 151-156
InspectForName ==
  /\ wpc = "name"
  /\ wi <= Len(nodes)
  /\ IF IsNamedPlaylist(nodes[wi])
     THEN /\ nameRes' = Ok(NameOr(nodes[wi], nameRes.val))
          /\ wpc' = "done"
          /\ UNCHANGED wi
     ELSE /\ wi' = wi + 1
          /\ UNCHANGED <<nameRes, wpc>>
  /\ UNCHANGED <<next_data, nodes, found, writers, tracksRes, refVars, nameVars, mainVars>>

\* the loop of line 151 ran out of nodes
EndOfNodes ==
  /\ wpc = "name"
  /\ wi > Len(nodes)
  /\ wpc' = "done"
  /\ UNCHANGED <<next_data, nodes, wi, found, writers, tracksRes, nameRes, refVars, nameVars, mainVars>>

NextWalk == VisitNode \/ ReturnTracks \/ InspectForName \/ EndOfNodes

SpecWalk == InitWalk /\ [][NextWalk]_vars

(***************************************************************************)
(* fetch_playlist_tracks_without_spotify_api, download_tracks and main.    *)
(***************************************************************************)
\* the most nodes drawn for the document of a run
MaxTracks == 3

\* lines 114-158, given what the network answers: an HTTPError, a URLError,
\* or a page whose script tag is missing, holds malformed JSON, or holds data
fetch_playlist_tracks_without_spotify_api(playlist_ref, response) ==
  LET playlist_url == normalize_playlist_url(playlist_ref)
  IN  IF playlist_url.exc # "none" THEN Raise(playlist_url.exc)
      ELSE IF response.kind \in {"HTTPError", "URLError"} THEN Raise("RuntimeError")
      ELSE IF response.script = "missing" THEN Raise("RuntimeError")
      ELSE IF response.script = "malformed" THEN Raise("RuntimeError")
      ELSE LET tracks == _extract_tracks_from_next_data(response.data)
               id == extract_playlist_id(playlist_ref)
           IN  IF tracks.exc # "none" THEN Raise(tracks.exc)
               ELSE IF id.exc # "none" THEN Raise(id.exc)
               ELSE Ok([playlist_name |-> PlaylistNameFrom(_walk(response.data), id.val),
                        tracks |-> tracks.val])

\* `except RuntimeError` in the place of `except Exception`
CaughtRuntimeErrorOnly(exc) == exc = "RuntimeError"

\* line 217: `except Exception` catches whatever the resolution raises
CaughtByMain(exc) == exc \in {"RuntimeError", "ValueError", "TypeError"}

\* enumerate(reversed(tracks), start=1)
EnumerateReversed(tracks) ==
  [i \in 1..Len(tracks) |-> [index |-> i, track |-> tracks[Len(tracks) + 1 - i]]]

\* line 179: enumerate(tracks, start=1)
Enumerate(tracks) == [i \in 1..Len(tracks) |-> [index |-> i, track |-> tracks[i]]]

\* line 180: the name of target_file
TargetFile(track) == filename(track) \o <<".", "m", "p", "3">>

\* the skip test answering no
ExistsNever(target_file, dir) == FALSE

\* line 181: target_file.exists()
Exists(target_file, dir) == target_file \in dir

\* the except clause of line 191 missing
DownloadErrorEscapes == FALSE

\* lines 189-192: a DownloadError is caught inside the loop
CatchesDownloadError == TRUE

\* ydl.download: the mp3 is written, nothing is found and nothing is written,
\* or DownloadError is raised
DownloadOutcomes == {"saved", "nothing", "DownloadError"}

MainRefs ==
  { <<"7", "a">>,
    HttpsScheme \o Host \o <<"/">> \o PlaylistSlash \o <<"7", "a", "?", "s", "i", "=", "b">>,
    HttpsScheme \o Host \o <<"/">> \o PlaylistSlash,
    Host \o <<"/">> \o PlaylistSlash \o <<"?", "s", "i", "=", "b">> }

\* nodes of the documents of a run: three tracks, two of which get the same
\* filename, and a node that stops the walk
MainNodes ==
  { Obj(<< <<"name", JStr(<<"A">>)>>, <<"artists", ArtistsStrs>>, <<"uri", TrackUri1>> >>),
    Obj(<< <<"name", JStr(<<"A", "/">>)>>, <<"artists", ArtistsStrs>> >>),
    Obj(<< <<"name", JStr(<<"A", ":">>)>>, <<"artists", ArtistsStrs>> >>),
    Obj(<< <<"name", JStr(<<"A">>)>>, <<"artists", ArtistsItemsNull>> >>) }

Responses ==
  { [kind |-> "HTTPError", script |-> "none", data |-> JNull],
    [kind |-> "URLError", script |-> "none", data |-> JNull],
    [kind |-> "page", script |-> "missing", data |-> JNull],
    [kind |-> "page", script |-> "malformed", data |-> JNull] }
  \cup {[kind |-> "page", script |-> "json", data |-> FlatDoc(ns)] :
          ns \in SeqsUpTo(MainNodes, MaxTracks)}

\* the names the output directory may hold before the run
EarlierFiles ==
  { <<"X", " ", "-", " ", "A", ".", "m", "p", "3">>,
    <<"X", " ", "-", " ", "A", "_", ".", "m", "p", "3">> }

Init ==
  /\ playlist \in MainRefs
  /\ net \in Responses
  /\ files0 \in SUBSET EarlierFiles
  /\ files = files0
  /\ mpc = "start"
  /\ resolution = NotCalled
  /\ dirMade = FALSE
  /\ queue = <<>>
  /\ log = <<>>
  /\ failed = {}
  /\ exitCode = NoExit
  /\ RefIdle
  /\ NameIdle
  /\ WalkIdle

\* line 216
Resolve ==
  /\ mpc = "start"
  /\ resolution' = fetch_playlist_tracks_without_spotify_api(playlist, net)
  /\ mpc' = "resolved"
  /\ UNCHANGED <<playlist, net, files0, dirMade, queue, files, log, failed, exitCode>>
  /\ UNCHANGED <<refVars, nameVars, walkVars>>

\* lines 217-219
ReturnResolutionError ==
  /\ mpc = "resolved"
  /\ resolution.exc # "none"
  /\ IF CaughtByMain(resolution.exc)
     THEN mpc' = "returned" /\ exitCode' = Returned(1)
     ELSE mpc' = "crashed" /\ UNCHANGED exitCode
  /\ UNCHANGED <<playlist, net, files0, resolution, dirMade, queue, files, log, failed>>
  /\ UNCHANGED <<refVars, nameVars, walkVars>>

\* lines 221-225
ReturnNoTracks ==
  /\ mpc = "resolved"
  /\ resolution.exc = "none"
  /\ resolution.val.tracks = <<>>
  /\ mpc' = "returned"
  /\ exitCode' = Returned(0)
  /\ UNCHANGED <<playlist, net, files0, resolution, dirMade, queue, files, log, failed>>
  /\ UNCHANGED <<refVars, nameVars, walkVars>>

\* line 230 up to the loop of line 179: the directory is made
EnterDownload ==
  /\ mpc = "resolved"
  /\ resolution.exc = "none"
  /\ resolution.val.tracks # <<>>
  /\ IF extract_playlist_id(playlist).exc = "none"
     THEN /\ dirMade' = TRUE
          /\ queue' = Enumerate(resolution.val.tracks)
          /\ mpc' = "loop"
     ELSE /\ mpc' = "crashed"
          /\ UNCHANGED <<dirMade, queue>>
  /\ UNCHANGED <<playlist, net, files0, resolution, files, log, failed, exitCode>>
  /\ UNCHANGED <<refVars, nameVars, walkVars>>

\* lines 179-183: the next track, and the skip when its file exists
CheckTarget ==
  /\ mpc = "loop"
  /\ queue # <<>>
  /\ LET item == Head(queue)
         target_file == TargetFile(item.track)
     IN  /\ log' = Append(log, [ev |-> "exists", index |-> item.index,
                                file |-> target_file,
                                present |-> Exists(target_file, files)])
         /\ IF Exists(target_file, files)
            THEN queue' = Tail(queue) /\ UNCHANGED mpc
            ELSE mpc' = "invoke" /\ UNCHANGED queue
  /\ UNCHANGED <<playlist, net, files0, resolution, dirMade, files, failed, exitCode>>
  /\ UNCHANGED <<refVars, nameVars, walkVars>>

\* lines 185-192: the download of the track, and what a DownloadError does
InvokeDownload ==
  /\ mpc = "invoke"
  /\ \E outcome \in DownloadOutcomes :
       LET item == Head(queue)
           target_file == TargetFile(item.track)
       IN  /\ log' = Append(log, [ev |-> "download", index |-> item.index,
                                  file |-> target_file, present |-> FALSE])
           /\ files' = IF outcome = "saved" THEN files \cup {target_file} ELSE files
           /\ failed' = IF outcome = "DownloadError"
                        THEN failed \cup {item.index} ELSE failed
           /\ IF outcome = "DownloadError" /\ ~CatchesDownloadError
              THEN mpc' = "crashed" /\ UNCHANGED queue
              ELSE mpc' = "loop" /\ queue' = Tail(queue)
  /\ UNCHANGED <<playlist, net, files0, resolution, dirMade, exitCode>>
  /\ UNCHANGED <<refVars, nameVars, walkVars>>

\* lines 231-232
ReturnDone ==
  /\ mpc = "loop"
  /\ queue = <<>>
  /\ mpc' = "returned"
  /\ exitCode' = Returned(0)
  /\ UNCHANGED <<playlist, net, files0, resolution, dirMade, queue, files, log, failed>>
  /\ UNCHANGED <<refVars, nameVars, walkVars>>

Next ==
  \/ Resolve
  \/ ReturnResolutionError
  \/ ReturnNoTracks
  \/ EnterDownload
  \/ CheckTarget
  \/ InvokeDownload
  \/ ReturnDone

Spec == Init /\ [][Next]_vars

(***************************************************************************)
(* Properties of main and download_tracks.                                 *)
(***************************************************************************)
\* the resolved tracks, once the resolution has succeeded
Resolved == IF resolution.exc = "none" THEN resolution.val.tracks ELSE <<>>

\* the positions in the log of the events of one kind for one track index
Events(ev, i) == {k \in 1..Len(log) : log[k].ev = ev /\ log[k].index = i}

\* C1: whatever tracks fail with a DownloadError, every other track whose
\* target file does not exist yet gets its download invocation, no failure
\* ends the run early, and main returns 0.
C1_FailuresDoNotAbort ==
  /\ mpc # "crashed"
  /\ (mpc = "returned" /\ Resolved # <<>>) =>
       /\ exitCode = Returned(0)
       /\ \A i \in 1..Len(Resolved) :
            /\ \E k \in Events("exists", i) :
                 ~log[k].present => Events("download", i) # {}
            /\ (/\ TargetFile(Resolved[i]) \notin files0
                /\ \A j \in 1..(i - 1) : TargetFile(Resolved[j]) # TargetFile(Resolved[i]))
                 => Events("download", i) # {}

\* of three tracks the first failed with a DownloadError, the other two
\* were saved, and main returned 0
C1_Witness ==
  /\ mpc = "returned"
  /\ exitCode = Returned(0)
  /\ Len(Resolved) = 3
  /\ failed = {1}
  /\ Events("download", 2) # {}
  /\ Events("download", 3) # {}
  /\ Cardinality(files \ files0) = 2

\* C2: a track whose target file exists before the run gets no download
\* invocation, and the run still returns 0.
C2_SkipExisting ==
  /\ \A i \in 1..Len(Resolved) :
       TargetFile(Resolved[i]) \in files0 => Events("download", i) = {}
  /\ (mpc = "returned" /\ resolution.exc = "none") => exitCode = Returned(0)

\* the file of the first track was there before the run, the second track
\* was downloaded, the first was not, and main returned 0
C2_Witness ==
  /\ mpc = "returned"
  /\ exitCode = Returned(0)
  /\ Len(Resolved) >= 2
  /\ TargetFile(Resolved[1]) \in files0
  /\ Events("exists", 1) # {}
  /\ Events("download", 1) = {}
  /\ Events("download", 2) # {}

\* the run's inputs make the resolution fail
ResolutionFails ==
  \/ net.kind \in {"HTTPError", "URLError"}
  \/ net.script \in {"missing", "malformed"}
  \/ extract_playlist_id(playlist).exc # "none"
  \/ resolution.exc \notin {"none", "notcalled"}

\* C3: when the resolution fails, main returns 1 and neither a download nor
\* the making of the output directory has happened; when it succeeds main
\* returns 0, and with no track found no download is invoked.
C3_ExitCodes ==
  /\ mpc # "crashed"
  /\ (mpc # "start" /\ ResolutionFails) =>
       /\ mpc \in {"resolved", "returned"}
       /\ resolution.exc \notin {"none", "notcalled"}
       /\ log = <<>>
       /\ ~dirMade
       /\ files = files0
       /\ mpc = "returned" => exitCode = Returned(1)
  /\ (mpc = "returned" /\ ~ResolutionFails) =>
       /\ exitCode = Returned(0)
       /\ Resolved = <<>> => (log = <<>> /\ ~dirMade)

\* the reference holds no id, which shows only after the page was fetched
\* and walked, and main returned 1
C3_Witness ==
  /\ mpc = "returned"
  /\ exitCode = Returned(1)
  /\ net.script = "json"
  /\ resolution.exc = "ValueError"

\* C4: the tracks are processed in the resolver's order: the log holds, for
\* the track indices in increasing order, one existence check of that
\* track's file and after it at most one download of it, and nothing of a
\* later track before them.
C4_InOrder ==
  /\ \A k \in 1..Len(log) :
       /\ log[k].index \in 1..Len(Resolved)
       /\ log[k].file = TargetFile(Resolved[log[k].index])
  /\ \A k1, k2 \in 1..Len(log) :
       k1 < k2 =>
         /\ log[k1].index <= log[k2].index
         /\ log[k1].index = log[k2].index =>
              (log[k1].ev = "exists" /\ log[k2].ev = "download")
  /\ mpc = "returned" => \A i \in 1..Len(Resolved) : dirMade => Events("exists", i) # {}

\* three tracks with two different files were all checked and downloaded
C4_Witness ==
  /\ mpc = "returned"
  /\ Len(Resolved) = 3
  /\ TargetFile(Resolved[1]) # TargetFile(Resolved[2])
  /\ Len(log) = 6

(***************************************************************************)
(* Properties of the reference normaliser.                                 *)
(***************************************************************************)
\* the reference is a bare id
IsBareId(r) == r.pre = <<>> /\ r.suf = <<>> /\ r.id # <<>>

\* the reference is a URL of the form .../playlist/<id>, with or without a
\* query string
IsPlaylistUrl(r) == r.pre # <<>> /\ r.id # <<>>

\* C5: extract_playlist_id returns a bare id unchanged (so a second
\* application changes nothing), and from any URL of the form
\* .../playlist/<id>, whatever its query string, it returns exactly <id>.
C5_ExtractRecoversId ==
  /\ (idRes # NotCalled /\ IsBareId(ref)) => idRes = Ok(ref.id)
  /\ (idAgain # NotCalled /\ IsBareId(ref)) => idAgain = idRes
  /\ (idRes # NotCalled /\ IsPlaylistUrl(ref)) => idRes = Ok(ref.id)

\* What the code does keep of C5: the id is recovered from the URLs in which
\* "spotify.com/playlist/" occurs, and a bare id is returned unchanged.
ExtractOnMarkedUrl ==
  /\ (idRes # NotCalled /\ IsBareId(ref)) => idRes = Ok(ref.id)
  /\ (idAgain # NotCalled /\ IsBareId(ref)) => idAgain = idRes
  /\ (/\ idRes # NotCalled
      /\ IsPlaylistUrl(ref)
      /\ Contains(ref.pre, SpotifyPlaylistMarker)) => idRes = Ok(ref.id)

\* C6: normalize_playlist_url returns an input that starts with http:// or
\* https:// unchanged; for any other input it returns
\* https://open.spotify.com/playlist/<id>, <id> being extract_playlist_id of
\* the input (and raises what extract_playlist_id raises).
C6_NormalizeUrl ==
  urlRes # NotCalled =>
    LET text == RefText(ref)
        id == extract_playlist_id(text)
    IN  IF StartsWith(text, HttpScheme) \/ StartsWith(text, HttpsScheme)
        THEN urlRes = Ok(text)
        ELSE IF id.exc = "none"
        THEN urlRes = Ok(CanonicalPrefix \o id.val)
        ELSE urlRes = id

\* a URL without scheme and with a query string was made canonical
C6_Witness ==
  /\ urlRes.exc = "none"
  /\ ref.pre = Host \o <<"/">> \o PlaylistSlash
  /\ ref.id # <<>>
  /\ ref.suf # <<>>
  /\ urlRes.val = CanonicalPrefix \o ref.id

(***************************************************************************)
(* Properties of Track.filename.                                           *)
(***************************************************************************)
\* C7: the filename holds none of \ / : * ? " < > | and is at most 180
\* characters long, and a second read of it gives the same string.
C7_FilenameSafe ==
  /\ fnameRes # NotCalled =>
       /\ \A i \in 1..Len(fnameRes.val) :
            fnameRes.val[i] \notin {"\\", "/", ":", "*", "?", "\"", "<", ">", "|"}
       /\ Len(fnameRes.val) <= 180
  /\ fnameAgain # NotCalled => fnameAgain = fnameRes

\* a title of more than 180 characters with a backslash in it was cut to 180
C7_Witness ==
  /\ fnameRes # NotCalled
  /\ Len(trk.title) > 180
  /\ \E i \in 1..180 : trk.title[i] = "\\"
  /\ Len(fnameRes.val) = 180

(***************************************************************************)
(* Properties of _extract_tracks_from_next_data and of the playlist name.  *)
(***************************************************************************)
\* the node has a uri key whose value does not start with spotify:track:
HasNonTrackUri(node) ==
  /\ HasKey(node, "uri")
  /\ ~(Get(node, "uri").k = "str" /\ StartsWith(Get(node, "uri").s, TrackUriPrefix))

\* the node has a uri that is a string and does not start with spotify:track:
HasNonTrackUriString(node) ==
  /\ Get(node, "uri").k = "str"
  /\ ~StartsWith(Get(node, "uri").s, TrackUriPrefix)

\* C8, as claimed: a node that carries a uri whose value does not start with
\* spotify:track: never contributes a track.
C8_NonTrackUriNeverContributes ==
  \A i \in writers : ~HasNonTrackUri(nodes[i])

\* C8, amended: a node whose uri is a string that does not start with
\* spotify:track: never contributes a track, and no track of the result has
\* only such nodes behind it.
C8_NonTrackUriStringNeverContributes ==
  /\ \A i \in writers : ~HasNonTrackUriString(nodes[i])
  /\ tracksRes.exc = "none" =>
       \A j \in 1..Len(tracksRes.val) :
         \E i \in 1..Len(nodes) :
           /\ ~HasNonTrackUriString(nodes[i])
           /\ NameOf(nodes[i]).k = "str"
           /\ Strip(NameOf(nodes[i]).s) = tracksRes.val[j].title

\* the walk is over, a node with a name, an artist and an album uri was in
\* the document, and no track came out
C8_Witness ==
  /\ tracksRes = Ok(<<>>)
  /\ \E i \in 1..Len(nodes) :
       /\ Get(nodes[i], "uri") = AlbumUri
       /\ Get(nodes[i], "name") = JStr(<<"A">>)
       /\ Get(nodes[i], "artists") = ArtistsStrs

\* the positions of the nodes that give a Track
TrackLike == {i \in 1..Len(nodes) : Classify(nodes[i]).act = "put"}

\* title and artists of a track-like node
NodeTrack(node) == Track(Strip(NameOf(node).s), ArtistsOf(node).val)

TrackKey(t) == <<Lower(t.title), [i \in 1..Len(t.artists) |-> Lower(t.artists[i])]>>

\* C9: the track-like nodes that share a key (lowercased title, lowercased
\* artists) give exactly one Track, with the title and the artists of the
\* node the walk visits last; no two tracks of the result share a key.
C9_DedupLastWins ==
  tracksRes.exc = "none" =>
    LET res == tracksRes.val
    IN  /\ \A i \in TrackLike :
             LET key == TrackKey(NodeTrack(nodes[i]))
                 same == {k \in TrackLike : TrackKey(NodeTrack(nodes[k])) = key}
                 last == CHOOSE k \in same : \A m \in same : m <= k
                 hits == {j \in 1..Len(res) : TrackKey(res[j]) = key}
             IN  /\ Cardinality(hits) = 1
                 /\ \A j \in hits : res[j] = NodeTrack(nodes[last])
        /\ \A j1, j2 \in 1..Len(res) : TrackKey(res[j1]) = TrackKey(res[j2]) => j1 = j2
        /\ \A j \in 1..Len(res) : \E i \in TrackLike : NodeTrack(nodes[i]) = res[j]

\* two track-like nodes with one key and different casing were walked, and
\* the only track is the later node's
C9_Witness ==
  /\ tracksRes.exc = "none"
  /\ Len(tracksRes.val) = 1
  /\ \E i, j \in TrackLike :
       /\ i < j
       /\ TrackKey(NodeTrack(nodes[i])) = TrackKey(NodeTrack(nodes[j]))
       /\ NodeTrack(nodes[i]) # NodeTrack(nodes[j])
       /\ tracksRes.val[1] = NodeTrack(nodes[j])

\* the positions of the Playlist nodes whose name is a non-empty string
NamedPlaylists ==
  {i \in 1..Len(nodes) :
     /\ Get(nodes[i], "__typename") = PlaylistTypename
     /\ Get(nodes[i], "name").k = "str"
     /\ Get(nodes[i], "name").s # <<>>}

\* C10: the playlist name is the trimmed name of the first node, in walk
\* order, whose __typename is "Playlist" and whose name is a non-empty
\* string; it is the bare playlist id only when there is no such node.
C10_PlaylistNameFirstNamed ==
  wpc = "done" =>
    IF NamedPlaylists = {}
    THEN nameRes = extract_playlist_id(WalkRef)
    ELSE LET first == CHOOSE k \in NamedPlaylists : \A m \in NamedPlaylists : k <= m
         IN  nameRes = Ok(Strip(Get(nodes[first], "name").s))

=============================================================================
